---- MODULE Spec2Model ----
(***************************************************************************)
(* Model of the useCharacters hook                                         *)
(* (my-app/src/components/characters/hooks.ts): a paginated fetch with     *)
(* AbortController cancellation, retry with exponential backoff and an     *)
(* auto-dismissing error.                                                  *)
(*                                                                         *)
(* One "sequence" is one run of the fetch effect (hooks.ts:11-69): it owns *)
(* one AbortController and the chain fetchData(0), fetchData(1), ...       *)
(* Time is kept as the remaining delay of every pending setTimeout; Tick   *)
(* lets TickMs elapse and is disabled while a timer is due.                *)
(* A promise rejected by abort() is handled in a microtask, i.e. before    *)
(* any other event: the model queues it in microtasks and every other      *)
(* action waits until the queue is empty.                                  *)
(***************************************************************************)
EXTENDS Integers, Sequences, FiniteSets, TLC

\* ---------------------------------------------------------------- bounds
\* number of fetch-effect runs (mount + navigations) explored
MaxSeq == 3

\* ------------------------------------------------------------- constants
MAX_RETRIES == 3
ERROR_DISMISS_MS == 3000
BACKOFF_BASE_MS == 1000

\* granularity of the clock, in ms: every delay is a multiple of it
TickMs == BACKOFF_BASE_MS

\* JS null for string-valued state, and "no timer armed"
null == "null"
NoTimer == -1
\* err.cause of an Error that carries none (undefined compares false)
NoStatus == 0
\* value of a ghost clock that has not started
NoAge == NoTimer

\* page tokens a consumer may pass to setPage
Tokens == {"p1", "p2"}
PageArgs == Tokens \cup {null}

\* ------------------------------------------------- the upstream resource
NoBody == [wellFormed |-> FALSE, previous |-> null, next |-> null, results |-> <<>>]

Bodies ==
  { [wellFormed |-> TRUE, previous |-> null, next |-> "p2", results |-> <<"u1">>],
    [wellFormed |-> TRUE, previous |-> "p1", next |-> null, results |-> <<"u2", "u3">>] }

\* what one network attempt can come back with: a Response, or a rejection
\* of fetch() itself (a TypeError without status)
Responses ==
  { [received |-> TRUE, status |-> 200, statusText |-> "OK", body |-> b] :
       b \in Bodies \cup {NoBody} }
  \cup
  { [received |-> TRUE, status |-> 404, statusText |-> "Not Found", body |-> NoBody],
    [received |-> TRUE, status |-> 503, statusText |-> "Service Unavailable", body |-> NoBody],
    [received |-> TRUE, status |-> 304, statusText |-> "Not Modified", body |-> NoBody],
    [received |-> FALSE, status |-> NoStatus, statusText |-> "", body |-> NoBody] }

\* ------------------------------------------------------- pure functions
ResolveUrl_AlwaysRoot(page) == "https://swapi.dev/api/people"

ResolveUrl(page) == IF page # null /\ page # "" THEN page ELSE "https://swapi.dev/api/people"

ResponseOk(status) == status >= 200 /\ status <= 299

HttpMessage_TextOnly(status, statusText) == statusText

HttpMessage(status, statusText) == ToString(status) \o ": " \o statusText

\* the value thrown inside the try block for a settled attempt
ThrownFor(resp) ==
  IF ~resp.received
    THEN [thrown |-> TRUE, name |-> "TypeError", message |-> "Failed to fetch", cause |-> NoStatus]
  ELSE IF ~ResponseOk(resp.status)
    THEN [thrown |-> TRUE, name |-> "Error",
          message |-> HttpMessage(resp.status, resp.statusText), cause |-> resp.status]
  ELSE IF ~resp.body.wellFormed
    THEN [thrown |-> TRUE, name |-> "SyntaxError", message |-> "Unexpected token", cause |-> NoStatus]
  ELSE [thrown |-> FALSE, name |-> "", message |-> "", cause |-> NoStatus]

AbortError == [thrown |-> TRUE, name |-> "AbortError", message |-> "The operation was aborted.", cause |-> NoStatus]

IsPermanent_Never(status) == FALSE

IsPermanent_UnlessServerError(status) == ~(status >= 500)

IsPermanent_AnyNonSuccess(status) == status >= 300 /\ status < 500

IsPermanent(status) == status >= 400 /\ status < 500

RetriesExhausted_OffByOne(attempts) == attempts > MAX_RETRIES

RetriesExhausted(attempts) == attempts >= MAX_RETRIES

\* the catch block surfaces the message of the error its own frame caught
\* (hooks.ts:47, 51)
SurfacedMessage_Generic(err) == "Request failed"

SurfacedMessage(err) == err.message

\* the catch block's decision: "silent", "surface" or "retry"
CatchDecision(err, attempts) ==
  IF err.name = "AbortError" THEN "silent"
  ELSE IF IsPermanent(err.cause) THEN "surface"
  ELSE IF RetriesExhausted(attempts) THEN "surface"
  ELSE "retry"

RECURSIVE Pow2(_)
Pow2(n) == IF n = 0 THEN 1 ELSE 2 * Pow2(n - 1)

BackoffDelay(attempts) == Pow2(attempts) * BACKOFF_BASE_MS

Falsy_NoGuard(page) == FALSE

Falsy(page) == page = null \/ page = ""

NewPages_KeepPrevious(old, data) == [previous |-> old.previous, next |-> data.next]

NewPages(old, data) == [previous |-> data.previous, next |-> data.next]

NewCharacters_Append(old, data) == old \o data.results

NewCharacters(old, data) == data.results

\* the fetch effect's dependency array [currentPage] (hooks.ts:69): the
\* effect re-runs when the value differs from the previous render's
DepsChanged_NoDeps(old, new) == FALSE

DepsChanged_Always(old, new) == TRUE

DepsChanged(old, new) == old # new

\* fetchData does not touch characters before a response is decoded
AttemptStartCharacters_Clear(old) == <<>>

AttemptStartCharacters(old) == old

AttemptStartError_Keep(old) == old

AttemptStartError(old) == null

\* the effect calls fetchData() without argument (hooks.ts:64), so a run
\* starts from the default attempts = 0 (hooks.ts:15) whatever the previous
\* run's counter was
FirstAttempt_Carry(previous) == previous

FirstAttempt(previous) == 0

\* the finally block of a frame runs when its try/catch completes; a catch
\* block that decided to retry is still awaiting (hooks.ts:56-57)
FinallyRuns_BeforeBackoff(d) == TRUE

FinallyRuns(d) == d # "retry"

\* ---------------------------------------------------------------- state
VARIABLES
  phase,        \* "created" (state initialised, effects not yet run), "mounted", "unmounted"
  loading, error, characters, currentPage, pages,   \* the five useState cells
  errTimer,     \* remaining ms of the auto-dismiss timer, or NoTimer
  orphans,      \* remaining ms of auto-dismiss timers no cleanup has cleared
  seqs,         \* the effect runs: closure, abort signal and position of fetchData
  nseq,         \* number of effect runs so far; seqs[nseq] is the newest
  microtasks,   \* effect runs whose awaited promise was rejected by abort()
  lastOk,       \* history: body of the most recent response that was applied
  errSince,     \* history: ms the current error message has been active
  ev            \* history: the step just taken

vars == <<phase, loading, error, characters, currentPage, pages, errTimer, orphans,
          seqs, nseq, microtasks, lastOk, errSince, ev>>

SeqIds == 1..MaxSeq

\* the label of a step: the operation, the effect run it belongs to, the
\* argument of setPage, and what a settled attempt threw (for setPage:
\* the error message on display when it was called)
Event(op, seq, arg, name, cause, message) ==
  [op |-> op, seq |-> seq, arg |-> arg, name |-> name, cause |-> cause, message |-> message]

Ev(op, seq) == Event(op, seq, null, "", NoStatus, "")

IdleSeq ==
  [page |-> null, reqUrl |-> "", aborted |-> FALSE, pc |-> "idle", attempts |-> 0,
   timer |-> NoTimer, made |-> 0, waits |-> <<>>, only503 |-> TRUE]

\* a cancelled run that has nothing left to do
DeadSeq == [IdleSeq EXCEPT !.aborted = TRUE, !.pc = "done"]

\* the arguments of the five useState calls (hooks.ts:5-9)
InitialState_NotLoading ==
  [loading |-> FALSE, error |-> null, characters |-> <<>>, currentPage |-> null,
   pages |-> [previous |-> null, next |-> null]]

InitialState ==
  [loading |-> TRUE, error |-> null, characters |-> <<>>, currentPage |-> null,
   pages |-> [previous |-> null, next |-> null]]

Init ==
  /\ phase = "created"
  /\ loading = InitialState.loading
  /\ error = InitialState.error
  /\ characters = InitialState.characters
  /\ currentPage = InitialState.currentPage
  /\ pages = InitialState.pages
  /\ errTimer = NoTimer
  /\ orphans = {}
  /\ seqs = [s \in SeqIds |-> IdleSeq]
  /\ nseq = 0
  /\ microtasks = <<>>
  /\ lastOk = NoBody
  /\ errSince = NoAge
  /\ ev = Ev("init", 0)

\* ------------------------------------------------------------- setters
\* A setter of an unmounted component is ignored.
Live == phase = "mounted"

\* setError(v) together with the auto-dismiss effect (hooks.ts:71-81), which
\* re-runs when error changed: its cleanup clears the old timer and a new
\* timer is armed when the new value is truthy.
ArmedTimer_NoCleanup(old, new, timer) ==
  IF new # null /\ new # "" /\ timer = NoTimer THEN ERROR_DISMISS_MS ELSE timer

ArmedTimer(old, new, timer) ==
  IF new = old THEN timer
  ELSE IF new # null /\ new # "" THEN ERROR_DISMISS_MS
  ELSE NoTimer

\* the cleanup of the auto-dismiss effect (hooks.ts:77-79)
ClearTimeout_Missing(timer) == timer

ClearTimeout(timer) == NoTimer

\* the timers still pending after the effect re-ran: the previous run's
\* timer, had its cleanup not cleared it, stays with the runtime
LeakedTimers(old, new, timer, left) ==
  IF new # old /\ ClearTimeout(timer) # NoTimer
    THEN left \cup {ClearTimeout(timer)}
    ELSE left

\* setError(v) when the effect holds timer and the runtime holds left
SetErrorFrom(v, timer, left) ==
  /\ error' = v
  /\ errTimer' = ArmedTimer(error, v, timer)
  /\ orphans' = LeakedTimers(error, v, timer, left)
  /\ errSince' = IF v = null THEN NoAge ELSE IF error = null THEN 0 ELSE errSince

SetError(v) == SetErrorFrom(v, errTimer, orphans)

KeepError == UNCHANGED <<error, errTimer, orphans, errSince>>

\* abort() on the run's controller: an attempt in flight is rejected with
\* an AbortError; a backoff timer is left running.
AbortAttempt_NoCleanup(r) == IF r.pc = "done" THEN DeadSeq ELSE r

AbortAttempt_NoSignal(r) ==
  IF r.pc = "done" THEN DeadSeq ELSE [r EXCEPT !.aborted = TRUE]

AbortAttempt(r) ==
  IF r.pc = "done" THEN DeadSeq
  ELSE [r EXCEPT !.aborted = TRUE,
                 !.pc = IF r.pc = "fetch" THEN "rejected" ELSE r.pc]

Rejected(old, new) == IF old.pc # "rejected" /\ new.pc = "rejected" THEN TRUE ELSE FALSE

\* fetchData(a) from its entry to the await of fetch (hooks.ts:15-27);
\* fetch with a signal that is already aborted rejects at once, without a
\* network request
EnterAttempt_NoSignal(r, a) ==
  [r EXCEPT !.attempts = a,
            !.reqUrl = ResolveUrl(r.page),
            !.pc = "fetch",
            !.timer = NoTimer,
            !.made = r.made + 1]

EnterAttempt(r, a) ==
  [r EXCEPT !.attempts = a,
            !.reqUrl = ResolveUrl(r.page),
            !.pc = IF r.aborted THEN "rejected" ELSE "fetch",
            !.timer = NoTimer,
            !.made = IF r.aborted THEN r.made ELSE r.made + 1]

\* every frame of the fetchData chain runs its finally block (hooks.ts:59-61)
FinallyLoading_Missing(old) == old

FinallyLoading(old) == FALSE

\* ---------------------------------------------------------------- actions
\* First run of the fetch effect (hooks.ts:11-69) with currentPage = null.
Mount ==
  /\ phase = "created"
  /\ phase' = "mounted"
  /\ nseq' = nseq + 1
  /\ seqs' = [seqs EXCEPT ![nseq + 1] =
                  EnterAttempt([IdleSeq EXCEPT !.page = currentPage], FirstAttempt(IdleSeq.attempts))]
  /\ loading' = TRUE
  /\ SetError(AttemptStartError(error))
  /\ characters' = AttemptStartCharacters(characters)
  /\ ev' = Ev("mount", nseq + 1)
  /\ UNCHANGED <<currentPage, pages, microtasks, lastOk>>

\* setPage(page) (hooks.ts:83-88).  A changed currentPage re-runs the fetch
\* effect: the cleanup of the previous run aborts its controller
\* (hooks.ts:66-68), then the new run calls fetchData().
SetPage(page) ==
  /\ phase = "mounted"
  /\ microtasks = <<>>
  /\ ev' = Event("setPage", nseq, page, "", NoStatus, error)
  /\ IF Falsy(page)
       THEN UNCHANGED <<phase, loading, error, characters, currentPage, pages, errTimer,
                        orphans, seqs, nseq, microtasks, lastOk, errSince>>
     ELSE IF ~DepsChanged(currentPage, page)
       THEN /\ currentPage' = page
            /\ UNCHANGED <<phase, loading, error, characters, pages, errTimer,
                           orphans, seqs, nseq, microtasks, lastOk, errSince>>
       ELSE /\ nseq < MaxSeq
            /\ currentPage' = page
            /\ nseq' = nseq + 1
            /\ seqs' = [seqs EXCEPT ![nseq] = AbortAttempt(@),
                                    ![nseq + 1] = EnterAttempt([IdleSeq EXCEPT !.page = page],
                                                               FirstAttempt(seqs[nseq].attempts))]
            /\ microtasks' = IF Rejected(seqs[nseq], AbortAttempt(seqs[nseq]))
                               THEN <<nseq>> ELSE <<>>
            /\ loading' = TRUE
            /\ SetError(AttemptStartError(error))
            /\ characters' = AttemptStartCharacters(characters)
            /\ UNCHANGED <<phase, pages, lastOk>>

\* The awaited promise of a cancelled run rejects with an AbortError: the
\* catch block skips it (hooks.ts:44) and the finally blocks run.
AbortDelivered ==
  /\ microtasks # <<>>
  /\ LET s == Head(microtasks)
         r == seqs[s]
         d == CatchDecision(AbortError, r.attempts)
     IN /\ r.pc = "rejected"
        /\ seqs' = [seqs EXCEPT ![s] =
                      IF d = "retry"
                        THEN [r EXCEPT !.pc = "backoff",
                                       !.timer = BackoffDelay(r.attempts),
                                       !.waits = Append(r.waits, BackoffDelay(r.attempts))]
                        ELSE DeadSeq]
        /\ microtasks' = Tail(microtasks)
        /\ IF d = "surface" /\ Live
             THEN SetError(SurfacedMessage(AbortError))
             ELSE KeepError
        /\ loading' = IF FinallyRuns(d) /\ Live THEN FinallyLoading(loading) ELSE loading
        /\ ev' = Ev("abortDelivered", s)
  /\ UNCHANGED <<phase, characters, currentPage, pages, nseq, lastOk>>

\* The attempt in flight of run s settles with resp (hooks.ts:25-61).
Respond(s, resp) ==
  /\ microtasks = <<>>
  /\ seqs[s].pc = "fetch"
  /\ LET r == seqs[s]
         err == ThrownFor(resp)
         d == IF err.thrown THEN CatchDecision(err, r.attempts) ELSE "ok"
         seen == [r EXCEPT !.only503 = r.only503 /\ resp.status = 503]
     IN /\ d \in {"ok", "surface", "retry"}
        /\ seqs' = [seqs EXCEPT ![s] =
                      IF d = "retry"
                        THEN [seen EXCEPT !.pc = "backoff",
                                          !.timer = BackoffDelay(r.attempts),
                                          !.waits = Append(r.waits, BackoffDelay(r.attempts))]
                        ELSE [seen EXCEPT !.pc = "done"]]
        /\ IF d = "ok" /\ Live
             THEN /\ pages' = NewPages(pages, resp.body)
                  /\ characters' = NewCharacters(characters, resp.body)
                  /\ lastOk' = resp.body
             ELSE UNCHANGED <<pages, characters, lastOk>>
        /\ IF d = "surface" /\ Live
             THEN SetError(SurfacedMessage(err))
             ELSE KeepError
        /\ ev' = Event("respond", s, null, err.name, err.cause, err.message)
        /\ loading' = IF FinallyRuns(d) /\ Live THEN FinallyLoading(loading) ELSE loading
  /\ UNCHANGED <<phase, currentPage, nseq, microtasks>>

\* The backoff timer of run s fires and the catch block calls
\* fetchData(attempts + 1) (hooks.ts:56-57).
BackoffFire(s) ==
  /\ microtasks = <<>>
  /\ seqs[s].pc = "backoff"
  /\ seqs[s].timer = 0
  /\ seqs' = [seqs EXCEPT ![s] = EnterAttempt(@, @.attempts + 1)]
  /\ microtasks' = IF Rejected(seqs[s], EnterAttempt(seqs[s], seqs[s].attempts + 1))
                     THEN <<s>> ELSE <<>>
  /\ IF Live
       THEN /\ loading' = TRUE
            /\ SetError(AttemptStartError(error))
            /\ characters' = AttemptStartCharacters(characters)
       ELSE KeepError /\ UNCHANGED <<loading, characters>>
  /\ ev' = Ev("backoffFire", s)
  /\ UNCHANGED <<phase, currentPage, pages, nseq, lastOk>>

\* The auto-dismiss timer fires (hooks.ts:73-75).
ErrorTimerFire ==
  /\ microtasks = <<>>
  /\ errTimer = 0 \/ 0 \in orphans
  /\ LET timer == IF errTimer = 0 THEN NoTimer ELSE errTimer
         left == IF errTimer = 0 THEN orphans ELSE orphans \ {0}
     IN IF Live
          THEN SetErrorFrom(null, timer, left)
          ELSE errTimer' = timer /\ orphans' = left /\ UNCHANGED <<error, errSince>>
  /\ ev' = Ev("errorTimerFire", 0)
  /\ UNCHANGED <<phase, loading, characters, currentPage, pages, seqs, nseq,
                 microtasks, lastOk>>

\* TickMs elapse; no timer is overdue.
TimerPending ==
  errTimer # NoTimer \/ orphans # {} \/ \E s \in SeqIds : seqs[s].timer # NoTimer

Tick ==
  /\ microtasks = <<>>
  /\ phase # "created"
  /\ TimerPending
  /\ errTimer = NoTimer \/ errTimer >= TickMs
  /\ \A s \in SeqIds : seqs[s].timer = NoTimer \/ seqs[s].timer >= TickMs
  /\ \A t \in orphans : t >= TickMs
  /\ errTimer' = IF errTimer = NoTimer THEN NoTimer ELSE errTimer - TickMs
  /\ orphans' = {t - TickMs : t \in orphans}
  /\ seqs' = [s \in SeqIds |->
                IF seqs[s].timer = NoTimer THEN seqs[s]
                ELSE [seqs[s] EXCEPT !.timer = @ - TickMs]]
  /\ errSince' = IF Live /\ error # null /\ errSince # NoAge THEN errSince + TickMs ELSE errSince
  /\ ev' = Ev("tick", 0)
  /\ UNCHANGED <<phase, loading, error, characters, currentPage, pages, nseq,
                 microtasks, lastOk>>

\* The view is torn down: both effect cleanups run (hooks.ts:66-68, 77-79).
Unmount ==
  /\ phase = "mounted"
  /\ microtasks = <<>>
  /\ phase' = "unmounted"
  /\ seqs' = [seqs EXCEPT ![nseq] = AbortAttempt(@)]
  /\ microtasks' = IF Rejected(seqs[nseq], AbortAttempt(seqs[nseq])) THEN <<nseq>> ELSE <<>>
  /\ errTimer' = ClearTimeout(errTimer)
  /\ ev' = Ev("unmount", nseq)
  /\ UNCHANGED <<loading, error, characters, currentPage, pages, nseq, lastOk,
                 errSince, orphans>>

Next ==
  \/ Mount
  \/ \E page \in PageArgs : SetPage(page)
  \/ AbortDelivered
  \/ \E s \in SeqIds, resp \in Responses : Respond(s, resp)
  \/ \E s \in SeqIds : BackoffFire(s)
  \/ ErrorTimerFire
  \/ Tick
  \/ Unmount

Spec == Init /\ [][Next]_vars

TypeOK ==
  /\ phase \in {"created", "mounted", "unmounted"}
  /\ loading \in BOOLEAN
  /\ nseq \in 0..MaxSeq
  /\ Len(microtasks) <= 1
  /\ \A s \in SeqIds : seqs[s].pc \in {"idle", "fetch", "rejected", "backoff", "done"}

\* the value the hook returns (hooks.ts:90-100)
Returned ==
  [error |-> error, loading |-> loading, characters |-> characters,
   pages |-> [previous |-> pages.previous, current |-> currentPage, next |-> pages.next]]

\* the newest run has terminated and no rejection is waiting to be handled
Settled == phase = "mounted" /\ microtasks = <<>> /\ seqs[nseq].pc = "done"

\* a step in which some run enters fetchData
AttemptStarted ==
  \E s \in SeqIds : seqs[s].pc \in {"idle", "backoff"} /\ seqs'[s].pc \in {"fetch", "rejected"}

\* ------------------------------------------------------------------ C1
\* C1: no step taken by a run after it was cancelled (the handling of its
\* aborted attempt, the firing of its backoff timer) changes loading or
\* error.
C1_StaleLeavesLoadingError ==
  [][ (ev'.op \in {"abortDelivered", "backoffFire"} /\ seqs[ev'.seq].aborted)
        => (loading' = loading /\ error' = error) ]_vars

\* ------------------------------------------------------------------ C2
\* C2: characters and pages change only in a step in which the newest,
\* not cancelled run (the one started for the current cursor) processes a
\* successful response, and they then hold that response's data.
C2_StaleNeverApplied ==
  [][ (characters' # characters \/ pages' # pages)
        => /\ ev'.op = "respond" /\ ev'.name = ""
           /\ ev'.seq = nseq
           /\ ~seqs[nseq].aborted /\ phase = "mounted"
           /\ seqs[nseq].page = currentPage
           /\ characters' = lastOk'.results ]_vars

C2_Witness ==
  /\ ev.op = "abortDelivered" /\ phase = "mounted"
  /\ lastOk # NoBody /\ characters = lastOk.results

\* ------------------------------------------------------------------ C3
\* C3: while the newest run has an attempt in flight or waits in a backoff,
\* loading is true.
C3_LoadingWhileOutstanding ==
  (phase = "mounted" /\ seqs[nseq].pc \in {"fetch", "backoff"}) => loading = TRUE

\* ------------------------------------------------------------------ C4
\* C4: a run that was not cancelled and saw status 503 on every attempt
\* ends after exactly 3 attempts, having waited 1000 ms and then 2000 ms,
\* with error set and loading cleared.
C4_ThreeAttemptsOn503 ==
  \A s \in SeqIds :
    (seqs[s].pc = "done" /\ ~seqs[s].aborted /\ seqs[s].only503)
      => /\ seqs[s].made = 3
         /\ seqs[s].waits = <<1000, 2000>>
         /\ (ev.op = "respond" => error = ev.message /\ loading = FALSE)

\* ------------------------------------------------------------------ C5
\* C5: a response with a status in [400, 500) ends the run at that attempt:
\* error becomes its message, loading becomes false, no backoff timer is
\* armed, and a terminated run never makes another attempt.
C5_PermanentFailsFast ==
  [][ /\ (ev'.op = "respond" /\ ev'.cause >= 400 /\ ev'.cause < 500)
          => /\ error' = ev'.message
             /\ loading' = FALSE
             /\ seqs'[ev'.seq].pc = "done"
             /\ seqs'[ev'.seq].timer = NoTimer
             /\ seqs'[ev'.seq].waits = seqs[ev'.seq].waits
             /\ seqs'[ev'.seq].made = seqs[ev'.seq].made
      /\ \A s \in SeqIds :
           seqs[s].pc = "done"
             => seqs'[s].pc = "done" /\ seqs'[s].made <= seqs[s].made ]_vars

C5_Witness ==
  /\ ev.op = "respond" /\ ev.cause = 404
  /\ seqs[ev.seq].attempts >= 1
  /\ error = "404: Not Found" /\ loading = FALSE

\* ------------------------------------------------------------------ C6
\* C6: setPage(null) changes nothing: no state cell, no run, no timer.
C6_NullIsNoOp ==
  [][ (ev'.op = "setPage" /\ ev'.arg = null)
        => UNCHANGED <<phase, loading, error, characters, currentPage, pages,
                       errTimer, seqs, nseq, microtasks>> ]_vars

C6_Witness ==
  /\ ev.op = "setPage" /\ ev.arg = null
  /\ currentPage # null /\ seqs[nseq].pc = "fetch"

\* ------------------------------------------------------------------ C7
\* C7: once settled, characters and pages.previous/next are those of the
\* most recent successful response; after the mount and a successful first
\* response the hook returns loading=false, error=null, the results, and
\* pages = {previous, current: null, next} of that response.
C7_SettledShowsLastSuccess ==
  /\ (Settled /\ lastOk # NoBody)
       => /\ Returned.characters = lastOk.results
          /\ Returned.pages.previous = lastOk.previous
          /\ Returned.pages.next = lastOk.next
  /\ (Settled /\ nseq = 1 /\ ev.op = "respond" /\ ev.name = "")
       => Returned = [error |-> null, loading |-> FALSE, characters |-> lastOk.results,
                      pages |-> [previous |-> lastOk.previous, current |-> null,
                                 next |-> lastOk.next]]

C7_Witness ==
  /\ Settled /\ nseq >= 2
  /\ ev.op = "respond" /\ ev.name = ""
  /\ lastOk.results = <<"u2", "u3">>

C9_ErrorImpliesNotLoading ==
  [][ /\ error' # null => loading' = FALSE
      /\ (error' # null /\ error' # error)
          => ev'.op = "respond" /\ seqs'[ev'.seq].pc = "done" /\ error' = ev'.message
      /\ (loading' = TRUE /\ loading = FALSE) => error' = null ]_vars

C9_Witness ==
  /\ error # null /\ loading = FALSE
  /\ nseq >= 2 /\ seqs[1].aborted /\ seqs[1].pc = "backoff"

\* ----------------------------------------------------------------- C10
\* C10: characters and pages are both at their initial values or both
\* taken from one and the same response body.
C10_ItemsAndLinksFromOneResponse ==
  \/ characters = <<>> /\ pages = [previous |-> null, next |-> null]
  \/ \E b \in Bodies :
       characters = b.results /\ pages = [previous |-> b.previous, next |-> b.next]

C10_Witness ==
  /\ nseq >= 2 /\ ev.op = "respond" /\ ev.seq = nseq
  /\ characters = <<"u1">> /\ pages.next = "p2"
  /\ currentPage = "p2"

\* ----------------------------------------------------------------- C11
\* C11 as stated: every setPage call with a present token makes that token
\* the cursor, cancels the previous run and starts exactly one new run.
C11_EveryTokenStartsARun ==
  [][ (ev'.op = "setPage" /\ ev'.arg # null)
        => /\ currentPage' = ev'.arg
           /\ nseq' = nseq + 1
           /\ seqs'[nseq].aborted ]_vars

\* C11 amended: a setPage call with a present token that differs from the
\* cursor makes it the cursor, cancels the previous run (an attempt in
\* flight is rejected) and starts exactly one new run at attempt 0; a call
\* with the current cursor starts nothing; runs start only at the mount and
\* in a step that changes the cursor.
C11_ChangedTokenStartsARun ==
  [][ /\ (ev'.op = "setPage" /\ ev'.arg # null /\ ev'.arg # currentPage)
          => /\ currentPage' = ev'.arg
             /\ nseq' = nseq + 1
             /\ seqs'[nseq].aborted
             /\ seqs[nseq].pc = "fetch" => seqs'[nseq].pc = "rejected"
             /\ seqs'[nseq'].page = ev'.arg
             /\ seqs'[nseq'].attempts = 0 /\ seqs'[nseq'].pc = "fetch"
      /\ (ev'.op = "setPage" /\ ev'.arg = currentPage)
          => UNCHANGED <<currentPage, nseq, seqs>>
      /\ nseq' # nseq
          => /\ nseq' = nseq + 1
             /\ ev'.op = "mount" \/ (ev'.op = "setPage" /\ currentPage' # currentPage)
      /\ currentPage' # currentPage => (ev'.op = "setPage" /\ nseq' = nseq + 1) ]_vars

C11_Witness ==
  /\ ev.op = "setPage" /\ ev.arg = currentPage
  /\ nseq = ev.seq + 1
  /\ microtasks = <<ev.seq>> /\ seqs[ev.seq].pc = "rejected"

\* ----------------------------------------------------------------- C12
\* C12: when setPage(a) is followed by setPage(b) before a's run resolved,
\* only b's run can process a response: when it terminates, the cursor is b
\* and the state holds b's response (or, on failure, b's message with the
\* data untouched), and nothing changes the data or the cursor afterwards
\* until another run starts.
C12_LastCallWins ==
  [][ /\ ev'.op = "respond"
          => /\ ev'.seq = nseq
             /\ ~seqs[nseq].aborted
             /\ seqs[nseq].page = currentPage
      /\ (ev'.op = "respond" /\ nseq >= 2 /\ seqs'[nseq].pc = "done")
          => /\ currentPage' = seqs'[nseq].page
             /\ IF ev'.name = ""
                  THEN /\ characters' = lastOk'.results
                       /\ pages' = [previous |-> lastOk'.previous, next |-> lastOk'.next]
                  ELSE /\ error' = ev'.message
                       /\ UNCHANGED <<characters, pages>>
      /\ (nseq >= 1 /\ nseq' = nseq /\ seqs[nseq].pc = "done")
          => UNCHANGED <<characters, pages, currentPage>> ]_vars

C12_Witness ==
  /\ nseq = 3 /\ currentPage = "p2" /\ seqs[3].page = "p2"
  /\ seqs[2].page = "p1" /\ seqs[2].aborted /\ seqs[2].pc = "backoff"
  /\ ev.op = "respond" /\ ev.seq = 3 /\ ev.name = ""
  /\ characters = lastOk.results

\* ----------------------------------------------------------------- C13
\* C13: a run makes at most 4 attempts (attempt numbers 0..3); in every
\* state in which no rejection is waiting to be handled, loading is false
\* once the newest run has terminated, and loading is true only while the
\* newest run has an attempt in flight or waits in a backoff.
C13_TerminatesAndClearsLoading ==
  /\ \A s \in SeqIds : seqs[s].made <= 4 /\ seqs[s].attempts <= 3
  /\ Settled => loading = FALSE
  /\ (phase = "mounted" /\ microtasks = <<>> /\ loading = TRUE)
       => seqs[nseq].pc \in {"fetch", "backoff"}

C13_Witness ==
  /\ Settled /\ loading = FALSE
  /\ seqs[nseq].made = 4 /\ seqs[nseq].attempts = 3
  /\ error # null

\* ----------------------------------------------------------------- C14
\* C14: the teardown clears the pending auto-dismiss timer and aborts the
\* newest run, leaving no attempt in flight; after the teardown the
\* auto-dismiss timer never fires, no response is processed and the state
\* cells do not change.
C14_TeardownCancels ==
  [][ /\ ev'.op = "unmount"
          => /\ errTimer' = NoTimer
             /\ seqs'[nseq].aborted
             /\ seqs'[nseq].pc # "fetch"
      /\ phase = "unmounted"
          => /\ ev'.op \notin {"errorTimerFire", "respond"}
             /\ errTimer' = NoTimer
             /\ \A s \in SeqIds : seqs'[s].pc # "fetch"
             /\ UNCHANGED <<loading, error, characters, pages, currentPage>> ]_vars

C14_Witness ==
  /\ phase = "unmounted" /\ ev.op = "unmount"
  /\ error # null /\ errSince < 3000 /\ errTimer = NoTimer

\* ----------------------------------------------------------------- C15
\* C15: every call of fetch by a run uses the URL resolved from the cursor
\* the run was started with: the token itself, or the default root when the
\* cursor is null; a retry uses the URL of the run's earlier attempts even
\* when the cursor has changed since.
C15_AttemptUsesRunCursor ==
  [][ \A s \in SeqIds :
        (seqs[s].pc \in {"idle", "backoff"} /\ seqs'[s].pc \in {"fetch", "rejected"})
          => /\ seqs'[s].reqUrl = IF seqs'[s].page = null
                                    THEN "https://swapi.dev/api/people"
                                    ELSE seqs'[s].page
             /\ seqs[s].pc = "idle" => seqs'[s].page = currentPage'
             /\ seqs[s].pc = "backoff"
                  => seqs'[s].page = seqs[s].page /\ seqs'[s].reqUrl = seqs[s].reqUrl ]_vars

C15_Witness ==
  /\ ev.op = "backoffFire" /\ ev.seq = 2
  /\ seqs[2].page = "p1" /\ seqs[2].reqUrl = "p1" /\ seqs[2].attempts >= 1
  /\ currentPage = "p2"

\* ----------------------------------------------------------------- C16
\* C16: characters and pages are left unchanged by every step other than
\* the processing of a successful response: by the start of a run, a failed
\* attempt, a retry, the handling of a cancelled attempt, the passage of
\* time, the auto-dismiss timer and the teardown; a successful response
\* replaces characters by its results.
C16_DataChangesOnlyOnSuccess ==
  [][ /\ ( ev'.op \in {"mount", "setPage", "abortDelivered", "backoffFire",
                         "errorTimerFire", "tick", "unmount"}
           \/ (ev'.op = "respond" /\ ev'.name # "") )
          => UNCHANGED <<characters, pages>>
      /\ (ev'.op = "respond" /\ ev'.name = "")
          => characters' \in {b.results : b \in Bodies} ]_vars

C16_Witness ==
  /\ ev.op = "setPage" /\ nseq = ev.seq + 1
  /\ seqs[nseq].pc = "fetch" /\ loading = TRUE
  /\ characters = <<"u1">> /\ pages.next = "p2"

\* ----------------------------------------------------------------- C17
\* C17: the state starts as loading=true, error=null, characters empty,
\* currentPage=null, pages={previous: null, next: null}, and the first run
\* starts from exactly that state, for the default page, at attempt 0.
C17_InitialState ==
  /\ loading = TRUE /\ error = null /\ characters = <<>> /\ currentPage = null
  /\ pages = [previous |-> null, next |-> null]
  /\ nseq = 0
  /\ [][ ev'.op = "mount"
           => /\ loading = TRUE /\ error = null /\ characters = <<>>
              /\ currentPage = null /\ pages = [previous |-> null, next |-> null]
              /\ nseq = 0 /\ nseq' = 1
              /\ seqs'[1].page = null
              /\ seqs'[1].reqUrl = "https://swapi.dev/api/people"
              /\ seqs'[1].attempts = 0 /\ seqs'[1].pc = "fetch" ]_vars

C17_Witness ==
  /\ ev.op = "mount" /\ phase = "mounted" /\ nseq = 1
  /\ seqs[1].pc = "fetch" /\ seqs[1].made = 1
  /\ loading = TRUE /\ error = null /\ characters = <<>> /\ currentPage = null

C19_CancelledRunIsSilent ==
  [][ \A s \in SeqIds :
        seqs[s].aborted
          => /\ seqs'[s].made <= seqs[s].made
             /\ ~(seqs[s].pc = "backoff" /\ seqs'[s].pc \in {"fetch", "rejected"})
             /\ seqs'[s].attempts <= seqs[s].attempts
             /\ (ev'.seq = s /\ ev'.op \in {"abortDelivered", "backoffFire"})
                  => error' \in {error, null} ]_vars

\* ----------------------------------------------------------------- C20
\* C20: while the newest run stays outstanding (an attempt in flight or a
\* backoff wait, before and after the step), loading does not go from true
\* to false.
C20_LoadingUninterrupted ==
  [][ ( /\ phase = "mounted" /\ phase' = "mounted"
        /\ nseq >= 1 /\ nseq' = nseq
        /\ seqs[nseq].pc \in {"fetch", "backoff"}
        /\ seqs'[nseq].pc \in {"fetch", "backoff"}
        /\ loading = TRUE )
        => loading' = TRUE ]_vars

C24_OneDismissTimer ==
  [][ /\ Cardinality(orphans') + (IF errTimer' # NoTimer THEN 1 ELSE 0) <= 1
      /\ phase' = "mounted" => ((errTimer' # NoTimer \/ orphans' # {}) <=> error' # null)
      /\ error' # error
           => /\ orphans' = {}
              /\ errTimer' = IF error' # null THEN 3000 ELSE NoTimer ]_vars

C24_Witness ==
  /\ phase = "mounted"
  /\ ev.op = "setPage" /\ nseq = ev.seq + 1
  /\ ev.message = "503: Service Unavailable"
  /\ error = null /\ errTimer = NoTimer /\ orphans = {}

\* C25: the attempt counter of a run is 0 when the run starts, whatever
\* the counters of earlier runs are, and it changes only when a backoff
\* wait ends, by exactly one.
C25_AttemptsFromZeroByOne ==
  [][ \A s \in SeqIds :
        /\ (seqs[s].pc = "idle" /\ seqs'[s].pc # "idle") => seqs'[s].attempts = 0
        /\ (seqs[s].pc = "backoff" /\ seqs'[s].pc \in {"fetch", "rejected"})
             => seqs'[s].attempts = seqs[s].attempts + 1
        /\ (seqs'[s].attempts # seqs[s].attempts /\ seqs'[s] # DeadSeq)
             => (ev'.op = "backoffFire" /\ ev'.seq = s) ]_vars

C25_Witness ==
  /\ ev.op = "setPage" /\ nseq = 2
  /\ seqs[1].pc = "backoff" /\ seqs[1].attempts = 2
  /\ seqs[2].pc = "fetch" /\ seqs[2].attempts = 0

\* C26: a 2xx response whose body cannot be decoded throws an error without
\* status and is handled as a transport failure is: the catch block decides
\* the same for both at every attempt number, a non-final attempt waits
\* 1000 ms times 2 to the power of attempts and surfaces nothing, the final
\* one puts the decode error's message in error; characters and pages stay
\* unchanged.
C26_DecodeFailureIsTransient ==
  /\ \A a \in 0..MAX_RETRIES, b \in {NoBody} :
       CatchDecision(ThrownFor([received |-> TRUE, status |-> 200, statusText |-> "OK", body |-> b]), a)
         = CatchDecision(ThrownFor([received |-> FALSE, status |-> NoStatus, statusText |-> "", body |-> b]), a)
  /\ [][ (ev'.op = "respond" /\ ev'.name = "SyntaxError")
           => LET s == ev'.seq
              IN /\ ev'.cause = NoStatus
                 /\ UNCHANGED <<characters, pages>>
                 /\ IF seqs[s].attempts < 3
                      THEN /\ seqs'[s].pc = "backoff"
                           /\ seqs'[s].timer = 1000 * Pow2(seqs[s].attempts)
                           /\ error' = error
                      ELSE /\ seqs'[s].pc = "done"
                           /\ phase = "mounted" => error' = "Unexpected token" ]_vars

C26_Witness ==
  /\ phase = "mounted"
  /\ ev.op = "respond" /\ ev.name = "SyntaxError"
  /\ seqs[ev.seq].attempts = 3 /\ seqs[ev.seq].waits = <<1000, 2000, 4000>>
  /\ error = "Unexpected token"
  /\ characters = <<"u1">>

\* C27: a response with a status outside 200-299 throws an error whose
\* message is "<status>: <status text>" and whose cause is the status; the
\* catch block's decision is the same for every status text; when the run
\* gives up, error is exactly that message.
C27_HttpFailureMessageAndCause ==
  /\ \A st \in {304, 404, 503}, a \in 0..MAX_RETRIES, body \in {NoBody} :
       \A t1, t2 \in {"Not Found", "Service Unavailable", "404"} :
         CatchDecision(ThrownFor([received |-> TRUE, status |-> st, statusText |-> t1, body |-> body]), a)
           = CatchDecision(ThrownFor([received |-> TRUE, status |-> st, statusText |-> t2, body |-> body]), a)
  /\ [][ (ev'.op = "respond" /\ ev'.name = "Error")
           => LET s == ev'.seq
              IN /\ <<ev'.cause, ev'.message>> \in
                      { <<304, "304: Not Modified">>, <<404, "404: Not Found">>,
                        <<503, "503: Service Unavailable">> }
                 /\ (ev'.cause >= 400 /\ ev'.cause < 500) => seqs'[s].pc = "done"
                 /\ (~(ev'.cause >= 400 /\ ev'.cause < 500) /\ seqs[s].attempts < 3)
                      => seqs'[s].pc = "backoff"
                 /\ (seqs'[s].pc = "done" /\ phase = "mounted") => error' = ev'.message
                 /\ seqs'[s].pc # "done" => error' = error ]_vars

C27_Witness ==
  /\ phase = "mounted"
  /\ ev.op = "respond" /\ ev.name = "Error" /\ ev.cause = 503
  /\ seqs[ev.seq].pc = "done"
  /\ error = "503: Service Unavailable"

\* C28: once the hook is mounted every run but the newest is cancelled, so
\* at most one run is not cancelled; the attempts of a run are all bound to
\* the run's one signal, so an attempt is outstanding on the network only
\* for a run that is not cancelled, and at most one attempt is outstanding.
C28_OneLiveRun ==
  /\ \A s \in SeqIds : (s < nseq => seqs[s].aborted) /\ (s > nseq => seqs[s] = IdleSeq)
  /\ Cardinality({s \in SeqIds : seqs[s].pc # "idle" /\ ~seqs[s].aborted}) <= 1
  /\ \A s \in SeqIds : seqs[s].pc = "fetch" => (s = nseq /\ ~seqs[s].aborted)
  /\ Cardinality({s \in SeqIds : seqs[s].pc = "fetch"}) <= 1

C28_Witness ==
  /\ nseq = 3
  /\ seqs[1].aborted /\ seqs[1].pc = "backoff"
  /\ seqs[2].aborted /\ seqs[2].pc = "backoff"
  /\ seqs[3].pc = "fetch" /\ seqs[3].attempts = 1 /\ ~seqs[3].aborted

\* C29: setPage(token) with the token that is already the cursor starts no
\* run and cancels nothing: no state cell, timer or run changes; so a page
\* whose run ended in an error is not fetched again.
C29_SameTokenChangesNothing ==
  [][ (ev'.op = "setPage" /\ ev'.arg # null /\ ev'.arg = currentPage)
        => UNCHANGED <<phase, loading, error, characters, currentPage, pages, errTimer,
                       orphans, seqs, nseq, microtasks>> ]_vars

C29_Witness ==
  /\ ev.op = "setPage" /\ ev.arg = "p2" /\ currentPage = "p2"
  /\ nseq = ev.seq
  /\ seqs[nseq].pc = "done" /\ seqs[nseq].made = 1
  /\ error = "404: Not Found" /\ ~loading

\* C30: the current page the hook returns is the cursor, and a cursor that
\* holds a token is never null again.
C30_CursorReturnedAndNeverReset ==
  [][ /\ Returned'.pages.current = currentPage'
      /\ currentPage # null => currentPage' # null ]_vars

C30_Witness ==
  /\ ev.op = "setPage" /\ ev.arg = null
  /\ currentPage = "p1" /\ Returned.pages.current = "p1"
  /\ nseq = 3

\* C31: when a run gives up after its retries, error becomes the message of
\* the attempt that has just failed, whatever earlier attempts of the run
\* failed with; error holds one message, and a step that puts a message in
\* error puts there the message of the failure handled in that step.
C31_LastFailureSurfaced ==
  [][ /\ (ev'.op = "respond" /\ phase = "mounted" /\ ev'.name # ""
            /\ seqs[ev'.seq].attempts = 3 /\ seqs[ev'.seq].made = 4)
          => /\ seqs'[ev'.seq].pc = "done"
             /\ error' = ev'.message
             /\ error' \in {"Failed to fetch", "Unexpected token", "404: Not Found",
                            "503: Service Unavailable", "304: Not Modified"}
      /\ (error' # error /\ error' # null)
          => (error = null /\ ev'.op = "respond" /\ ev'.name # "" /\ error' = ev'.message) ]_vars

C31_Witness ==
  /\ phase = "mounted"
  /\ ev.op = "respond" /\ ev.cause = 503
  /\ seqs[ev.seq].attempts = 3 /\ seqs[ev.seq].made = 4 /\ seqs[ev.seq].pc = "done"
  /\ ~seqs[ev.seq].only503
  /\ error = "503: Service Unavailable"

\* ------------------------------------------------ the Characters component
\* What Characters renders from the hook's return value (Characters.tsx):
\* while loading only the "Loading..." section (lines 11-13), otherwise the
\* error banner, the list and the two buttons.
ControlsRendered(ld) == ~ld

\* the disabled attribute of a button (Characters.tsx:25, 28)
Disabled_IgnoresLink(link, ld) == ld

Disabled(link, ld) == Falsy(link) \/ ld

View ==
  [loadingOnly |-> ~ControlsRendered(Returned.loading),
   banner |-> IF ControlsRendered(Returned.loading) /\ ~Falsy(Returned.error)
                THEN Returned.error ELSE null,
   list |-> IF ControlsRendered(Returned.loading) THEN Returned.characters ELSE <<>>,
   prev |-> ControlsRendered(Returned.loading)
              /\ ~Disabled(Returned.pages.previous, Returned.loading),
   next |-> ControlsRendered(Returned.loading)
              /\ ~Disabled(Returned.pages.next, Returned.loading)]

\* a click on an enabled button calls setPage with the link of the render
ClickPrev ==
  /\ phase = "mounted"
  /\ View.prev
  /\ SetPage(Returned.pages.previous)

ClickNext ==
  /\ phase = "mounted"
  /\ View.next
  /\ SetPage(Returned.pages.next)

\* the hook driven by the component only
ViewNext ==
  \/ Mount
  \/ ClickPrev
  \/ ClickNext
  \/ AbortDelivered
  \/ \E s \in SeqIds, resp \in Responses : Respond(s, resp)
  \/ \E s \in SeqIds : BackoffFire(s)
  \/ ErrorTimerFire
  \/ Tick
  \/ Unmount

ViewSpec == Init /\ [][ViewNext]_vars

\* C32: in the composed view setPage is called only while loading is false
\* and only with a non-null link that is the previous or next link held at
\* that moment; while loading is true the list and both buttons are absent.
C32_NavigationOnlyWhenIdle ==
  [][ /\ ev'.op = "setPage"
          => /\ ~loading
             /\ ev'.arg # null
             /\ ev'.arg \in {pages.previous, pages.next}
      /\ loading'
          => /\ View'.loadingOnly
             /\ ~View'.prev /\ ~View'.next
             /\ View'.list = <<>> ]_vars

C32_Witness ==
  /\ ev.op = "setPage" /\ ev.arg = "p1" /\ nseq = 3
  /\ currentPage = "p1"
  /\ loading /\ View.loadingOnly
  /\ pages.previous = "p1" /\ characters = <<"u2", "u3">>

\* C33: a response with a non-success status below 400 (here 304) is
\* handled as a status of 500 or more is: the catch block decides the same
\* for both at every attempt number, a non-final attempt waits 1000 ms times
\* 2 to the power of attempts and leaves error alone, and only the attempt
\* with attempts = 3 surfaces the message.
C33_RedirectStatusIsTransient ==
  /\ \A a \in 0..MAX_RETRIES, b \in {NoBody} :
       CatchDecision(ThrownFor([received |-> TRUE, status |-> 304, statusText |-> "Not Modified", body |-> b]), a)
         = CatchDecision(ThrownFor([received |-> TRUE, status |-> 503, statusText |-> "Service Unavailable", body |-> b]), a)
  /\ [][ (ev'.op = "respond" /\ ev'.cause = 304)
           => LET s == ev'.seq
              IN IF seqs[s].attempts < 3
                   THEN /\ seqs'[s].pc = "backoff"
                        /\ seqs'[s].timer = 1000 * Pow2(seqs[s].attempts)
                        /\ seqs'[s].waits = Append(seqs[s].waits, 1000 * Pow2(seqs[s].attempts))
                        /\ UNCHANGED <<error, loading>>
                   ELSE /\ seqs'[s].pc = "done"
                        /\ phase = "mounted" => error' = "304: Not Modified" ]_vars

C33_Witness ==
  /\ phase = "mounted"
  /\ ev.op = "respond" /\ ev.cause = 304
  /\ seqs[ev.seq].attempts = 3 /\ seqs[ev.seq].made = 4
  /\ seqs[ev.seq].waits = <<1000, 2000, 4000>>
  /\ error = "304: Not Modified" /\ ~loading

====
